---- MODULE Spec2Model ----
(***************************************************************************)
(* A model of the plotting scripts under src/results: the CSV loaders with  *)
(* their subsampling, the frame loops of animate_lines and                  *)
(* plot_trajectory_quaternion, the drawable classes of animate_3d and the   *)
(* control flow of yaml_plot.                                               *)
(*                                                                          *)
(* Times are exact rationals: a time value t of the model stands for        *)
(* t / TicksPerSecond seconds, so (1 / fps) / dt is the rational            *)
(* TicksPerSecond / (fps * dt) and int() of it is computed exactly.         *)
(* Floating-point rounding of the quotient is outside the model.            *)
(***************************************************************************)
EXTENDS Integers, Sequences, FiniteSets, TLC

VARIABLES
    script,       \* which script of src/results is being run
    pc,           \* position in that script
    csv,          \* the CSV file: column name -> sequence of cells
    fps,          \* the fps argument of csv_to_datadict
    time_key,     \* the time_key argument of csv_to_datadict
    datadict,     \* the loaded datadict (None before the load)
    samples,      \* the local `samples` of csv_to_datadict, as last computed
    error,        \* the exception that ended the script, or None
    frames_data,  \* animate_lines: the list built by get_frames_data
    frame,        \* the loop / animation variable `frame`
    frame_seq,    \* the frames passed to update / set_object_transform so far
    plotted,      \* animate_lines: what the last update drew
    keyframes,    \* plot_trajectory_quaternion: inserted keyframes
    frame_end,    \* plot_trajectory_quaternion: bpy.context.scene.frame_end
    ctor,         \* animate_3d: which object list is constructed
    object_list,  \* animate_3d: the drawable objects
    max,          \* animate_3d: the module-level `max` (line 304)
    min,          \* animate_3d: the module-level `min` (line 305)
    ax,           \* animate_3d: what the axes show after the last update
    args,         \* yaml_plot: the parsed command line
    yaml_dict,    \* yaml_plot: the content of the YAML file
    yaml_dir,     \* yaml_plot: directory of the YAML file
    output_path,  \* yaml_plot: where figures are written (None: shown)
    group_name,   \* yaml_plot: the group name
    fig_list,     \* yaml_plot: the (title, figure) pairs built so far
    shown,        \* yaml_plot: titles of the figures shown, in order
    written,      \* yaml_plot: the files written, in order
    stdout,       \* yaml_plot: the ERROR| lines printed
    exit_status   \* exit status of the process (None while it runs)

vars == <<script, pc, csv, fps, time_key, datadict, samples, error,
          frames_data, frame, frame_seq, plotted, keyframes, frame_end,
          ctor, object_list, max, min, ax,
          args, yaml_dict, yaml_dir, output_path, group_name, fig_list,
          shown, written, stdout, exit_status>>

None == "None"
\* `x is None`, for an x of any type
IsNone(x) == ToString(x) = ToString(None)

-----------------------------------------------------------------------------
(* Bounds of the model                                                      *)

\* rows of a CSV file: 0..MaxRows
MaxRows == 4

\* resolution of the time axis: ticks per second
TicksPerSecond == 300

\* differences of consecutive time cells, in ticks (negative, zero, and
\* finer and coarser than the frame periods of 5, 6 and 30 ticks)
Dts == {-2, 0, 2, 3, 6, 15}

\* the fps values of the three call sites
FpsLines == 60
FpsQuat == 50
Fps3d == 10
FpsValues == {Fps3d, FpsQuat, FpsLines}

-----------------------------------------------------------------------------
(* Python and numpy semantics used by the scripts                           *)

\* int(n / m) for n > 0: truncation toward zero of the exact quotient
IntTrunc(n, m) == IF m > 0 THEN n \div m ELSE -(n \div (-m))

\* a[::k] for k # 0
SliceStepUp(a, k) == [i \in 1..((Len(a) + k - 1) \div k) |-> a[(i - 1) * k + 1]]
SliceStep(a, k) ==
    IF k > 0 THEN SliceStepUp(a, k)
    ELSE [i \in 1..((Len(a) + (-k) - 1) \div (-k)) |-> a[Len(a) - (i - 1) * (-k)]]

\* range(n) as a sequence
Range(n) == [i \in 1..n |-> i - 1]

-----------------------------------------------------------------------------
(* csv_to_datadict, one definition per copy                                 *)

Failed(exc) == [status |-> exc, datadict |-> None, samples |-> None]

\* a stride that rounds the quotient up instead of truncating it
StrideCeil(f, dt) ==
    IF dt > 0 THEN (TicksPerSecond + (f * dt) - 1) \div (f * dt)
    ELSE IntTrunc(TicksPerSecond, f * dt)
\* a stride that is raised to 1 when the quotient truncates to 0
StrideAtLeastOne(f, dt) ==
    IF IntTrunc(TicksPerSecond, f * dt) = 0 THEN 1 ELSE IntTrunc(TicksPerSecond, f * dt)
\* samples = int((1 / fps) / dt), dt in ticks
Stride(f, dt) == IntTrunc(TicksPerSecond, f * dt)

\* a slicing that starts at the second row
SubsampleFromOne(dd, s) ==
    [key \in DOMAIN dd |-> SliceStep(Tail(dd[key]), s)]
\* for key in datadict: datadict[key] = datadict[key][::samples]
Subsample(dd, s) == [key \in DOMAIN dd |-> SliceStep(dd[key], s)]

\* results/file_handling.py
csv_to_datadict(file, f, tkey) ==
    IF tkey \notin DOMAIN file THEN Failed("KeyError")
    ELSE IF Len(file[tkey]) < 2 THEN Failed("IndexError")
    ELSE LET dt == file[tkey][2] - file[tkey][1] IN
         IF dt = 0 THEN Failed("OverflowError")
         ELSE LET s == Stride(f, dt) IN
              IF s = 0 THEN [status |-> "ValueError", datadict |-> None, samples |-> 0]
              ELSE [status |-> "ok", datadict |-> Subsample(file, s), samples |-> s]

\* a loader that returns the file as read, without slicing
lines_no_subsampling(file, f, tkey) ==
    [status |-> "ok", datadict |-> file, samples |-> 1]
\* results/animate_lines.py
lines_csv_to_datadict(file, f, tkey) ==
    IF tkey \notin DOMAIN file THEN Failed("KeyError")
    ELSE IF Len(file[tkey]) < 2 THEN Failed("IndexError")
    ELSE LET dt == file[tkey][2] - file[tkey][1] IN
         IF dt = 0 THEN Failed("OverflowError")
         ELSE LET s == IntTrunc(TicksPerSecond, f * dt) IN
              IF s = 0 THEN [status |-> "ValueError", datadict |-> None, samples |-> 0]
              ELSE [status |-> "ok",
                    datadict |-> [key \in DOMAIN file |-> SliceStep(file[key], s)],
                    samples |-> s]

\* results/plot_trajectory_quaternion.py
quat_csv_to_datadict(file, f, tkey) ==
    IF tkey \notin DOMAIN file THEN Failed("KeyError")
    ELSE IF Len(file[tkey]) < 2 THEN Failed("IndexError")
    ELSE LET dt == file[tkey][2] - file[tkey][1] IN
         IF dt = 0 THEN Failed("OverflowError")
         ELSE LET s == IntTrunc(TicksPerSecond, f * dt) IN
              IF s = 0 THEN [status |-> "ValueError", datadict |-> None, samples |-> 0]
              ELSE [status |-> "ok",
                    datadict |-> [key \in DOMAIN file |-> SliceStep(file[key], s)],
                    samples |-> s]

\* results/yaml_plot.py: no subsampling
yaml_csv_to_datadict(file) == [key \in DOMAIN file |-> file[key]]

-----------------------------------------------------------------------------
(* The CSV files the scripts are run on                                     *)

\* a time column: starts at 0, consecutive differences drawn from Dts
TimeOf(incs) ==
    LET RECURSIVE At(_)
        At(i) == IF i = 1 THEN 0 ELSE At(i - 1) + incs[i - 1]
    IN [i \in 1..(Len(incs) + 1) |-> At(i)]
TimeColumns ==
    {<< >>} \cup UNION {{TimeOf(incs) : incs \in [1..n -> Dts]} : n \in 0..(MaxRows - 1)}

\* a data column: the cell of row r of column key is the pair <<key, r>>
DataColumn(key, n) == [i \in 1..n |-> <<key, i - 1>>]

LinesKeys ==
    {"tvc.a.start_x [m]", "tvc.a.start_y [m]", "tvc.a.end_x [m]", "tvc.a.end_y [m]",
     "tvc.b.start_x [m]", "tvc.b.start_y [m]", "tvc.b.end_x [m]", "tvc.b.end_y [m]",
     "tvc.g.start_x [m]", "tvc.g.start_y [m]", "tvc.g.end_x [m]", "tvc.g.end_y [m]",
     "tvc.l.start_x [m]", "tvc.l.start_y [m]", "tvc.l.end_x [m]", "tvc.l.end_y [m]"}
object_name == "body"
QuatKeys ==
    {"body.pos.x [m]", "body.pos.y [m]", "body.pos.z [m]",
     "body.quat.a [-]", "body.quat.b [-]", "body.quat.c [-]", "body.quat.d [-]"}

\* a CSV file with time column t under key tkey and the data columns keys
CsvFile(tkey, t, keys) ==
    [key \in keys \cup {tkey} |->
        IF key = tkey THEN t ELSE DataColumn(key, Len(t))]
\* a CSV file without its time column
CsvNoTime(keys, n) == [key \in keys |-> DataColumn(key, n)]

-----------------------------------------------------------------------------
(* animate_lines.py                                                         *)

\* get_frames_data: one entry [a, b, g, l] per row of datadict['angle [rad]'],
\* each line a pair of (x, y) points taken from row i
LineOfRow(dd, name, i) ==
    << <<dd["tvc." \o name \o ".start_x [m]"][i], dd["tvc." \o name \o ".start_y [m]"][i]>>,
       <<dd["tvc." \o name \o ".end_x [m]"][i], dd["tvc." \o name \o ".end_y [m]"][i]>> >>
get_frames_data(dd) ==
    [i \in 1..Len(dd["angle [rad]"]) |->
        <<LineOfRow(dd, "a", i), LineOfRow(dd, "b", i),
          LineOfRow(dd, "g", i), LineOfRow(dd, "l", i)>>]

\* a frame sequence that stops one frame early
FramesButLast(n) == Range(IF n > 0 THEN n - 1 ELSE 0)
\* FuncAnimation(frames=n): the frames are range(n)
Frames(n) == Range(n)

-----------------------------------------------------------------------------
(* plot_trajectory_quaternion.py                                            *)

\* the pos and quat lists of loop iteration i (lines 46-56)
PosOf(dd, i) ==
    <<dd[object_name \o ".pos.x [m]"][i + 1], dd[object_name \o ".pos.y [m]"][i + 1],
      dd[object_name \o ".pos.z [m]"][i + 1]>>
QuatOf(dd, i) ==
    <<dd[object_name \o ".quat.a [-]"][i + 1], dd[object_name \o ".quat.b [-]"][i + 1],
      dd[object_name \o ".quat.c [-]"][i + 1], dd[object_name \o ".quat.d [-]"][i + 1]>>

\* obj.keyframe_insert(data_path, frame): the key at that frame is replaced
KeyframeInsert(keys, path, f, value) ==
    {k \in keys : ~(k.data_path = path /\ k.frame = f)}
        \cup {[data_path |-> path, frame |-> f, value |-> value]}

\* set_object_transform(frame, obj, pos, quat)
set_object_transform(keys, f, pos, quat) ==
    KeyframeInsert(KeyframeInsert(keys, "location", f, pos),
                   "rotation_quaternion", f, quat)

-----------------------------------------------------------------------------
(* animate_3d.py: the drawable classes.  A data set is a triple of arrays,  *)
(* data[k][row] for the axes k = 1 (x), 2 (y), 3 (z); rows and frames are   *)
(* 0-based in the code and stored 1-based here.                             *)

Max2(a, b) == IF a >= b THEN a ELSE b
Min2(a, b) == IF a <= b THEN a ELSE b
\* numpy's a.max() and a.min() of a non-empty array
ArrMax(a) == CHOOSE m \in {a[i] : i \in DOMAIN a} : \A i \in DOMAIN a : a[i] <= m
ArrMin(a) == CHOOSE m \in {a[i] : i \in DOMAIN a} : \A i \in DOMAIN a : a[i] >= m
\* Python's max(...) and min(...) of the three per-axis values
Max3(f) == Max2(f[1], Max2(f[2], f[3]))
Min3(f) == Min2(f[1], Min2(f[2], f[3]))

zeros_like(a) == [i \in DOMAIN a |-> 0]
ones_like(a) == [i \in DOMAIN a |-> 1]
Scaled(data, c) == [k \in 1..3 |-> [i \in DOMAIN data[k] |-> data[k][i] * c]]

\* Axis.__init__
Axis(pos_data_m, red_data_m, green_data_m, blue_data_m, axis_scale) ==
    [cls |-> "Axis",
     pos_data_m |-> pos_data_m,
     red_data_m |-> Scaled(
        IF IsNone(red_data_m)
        THEN <<ones_like(pos_data_m[1]), zeros_like(pos_data_m[1]), zeros_like(pos_data_m[1])>>
        ELSE red_data_m, axis_scale),
     green_data_m |-> Scaled(
        IF IsNone(green_data_m)
        THEN <<zeros_like(pos_data_m[2]), ones_like(pos_data_m[2]), zeros_like(pos_data_m[2])>>
        ELSE green_data_m, axis_scale),
     blue_data_m |-> Scaled(
        IF IsNone(blue_data_m)
        THEN <<zeros_like(pos_data_m[3]), zeros_like(pos_data_m[3]), ones_like(pos_data_m[3])>>
        ELSE blue_data_m, axis_scale)]

\* Axis.origin
AxisOrigin(sample_data, axis_scale) ==
    Axis(<<zeros_like(sample_data), zeros_like(sample_data), zeros_like(sample_data)>>,
         None, None, None, axis_scale)

\* Curve.__init__
Curve(pos_data_m, color, offset_pos_data) ==
    [cls |-> "Curve",
     pos_data_m |-> pos_data_m,
     color |-> color,
     offset_pos_data |->
        IF IsNone(offset_pos_data)
        THEN <<zeros_like(pos_data_m[1]), zeros_like(pos_data_m[2]), zeros_like(pos_data_m[3])>>
        ELSE offset_pos_data]

\* Line.__init__
Line(start_m, end_m, color) ==
    [cls |-> "Line", color |-> color, start_m |-> start_m, end_m |-> end_m]

\* Vector3.__init__
Vector3(pos_data_m, components, color) ==
    [cls |-> "Vector3", color |-> color,
     pos_data_m |-> pos_data_m, components |-> components]

\* Vector3.from_origin
Vector3FromOrigin(components, color) ==
    Vector3(<<zeros_like(components[1]), zeros_like(components[2]), zeros_like(components[3])>>,
            components, color)

\* the point data[.][frame]
At3(data, f) == <<data[1][f + 1], data[2][f + 1], data[3][f + 1]>>
Add3(p, q) == <<p[1] + q[1], p[2] + q[2], p[3] + q[3]>>

\* Axis.plot: three segments from the origin of the frame
AxisPlot(self, f) ==
    LET o == At3(self.pos_data_m, f) IN
    << [color |-> "red", points |-> <<o, Add3(o, At3(self.red_data_m, f))>>],
       [color |-> "blue", points |-> <<o, Add3(o, At3(self.blue_data_m, f))>>],
       [color |-> "green", points |-> <<o, Add3(o, At3(self.green_data_m, f))>>] >>

\* a Curve that also draws the row of the frame itself
CurvePlotInclusive(self, f) ==
    << [color |-> self.color,
        points |-> [i \in 1..Min2(f + 1, Len(self.pos_data_m[1])) |->
                      Add3(At3(self.offset_pos_data, i - 1), At3(self.pos_data_m, i - 1))]] >>
\* Curve.plot: the rows [:frame] of offset + position
CurvePlot(self, f) ==
    << [color |-> self.color,
        points |-> [i \in 1..Min2(f, Len(self.pos_data_m[1])) |->
                      Add3(At3(self.offset_pos_data, i - 1), At3(self.pos_data_m, i - 1))]] >>

\* Line.plot: the segment of row frame
LinePlot(self, f) ==
    << [color |-> self.color, points |-> <<At3(self.start_m, f), At3(self.end_m, f)>>] >>

\* Vector3.plot: ax.quiver(x, y, z, u, v, w), an arrow from the tail
\* (x, y, z) to the head (x + u, y + v, z + w)
Vector3Plot(self, f) ==
    LET tail == At3(self.pos_data_m, f) IN
    << [color |-> self.color,
        points |-> <<tail, Add3(tail, At3(self.components, f))>>] >>

\* Axis.get_max_value / get_min_value
AxisMax(self) ==
    Max3([k \in 1..3 |-> ArrMax(self.pos_data_m[k]) + ArrMax(self.red_data_m[k])
                          + ArrMax(self.green_data_m[k]) + ArrMax(self.blue_data_m[k])])
AxisMin(self) ==
    Min3([k \in 1..3 |-> ArrMin(self.pos_data_m[k]) + ArrMin(self.red_data_m[k])
                          + ArrMin(self.green_data_m[k]) + ArrMin(self.blue_data_m[k])])

\* a Curve maximum that leaves the offset out
CurveMaxNoOffset(self) == Max3([k \in 1..3 |-> ArrMax(self.pos_data_m[k])])
\* Curve.get_max_value / get_min_value
CurveMax(self) ==
    Max3([k \in 1..3 |-> ArrMax(self.offset_pos_data[k]) + ArrMax(self.pos_data_m[k])])
CurveMin(self) ==
    Min3([k \in 1..3 |-> ArrMin(self.offset_pos_data[k]) + ArrMin(self.pos_data_m[k])])

\* Line.get_max_value / get_min_value
LineMax(self) ==
    Max2(Max3([k \in 1..3 |-> ArrMax(self.start_m[k])]),
         Max3([k \in 1..3 |-> ArrMax(self.end_m[k])]))
LineMin(self) ==
    Min2(Min3([k \in 1..3 |-> ArrMin(self.start_m[k])]),
         Min3([k \in 1..3 |-> ArrMin(self.end_m[k])]))

\* Vector3.get_max_value / get_min_value
Vector3Max(self) ==
    Max3([k \in 1..3 |-> ArrMax(self.pos_data_m[k]) + ArrMax(self.components[k])])
Vector3Min(self) ==
    Min3([k \in 1..3 |-> ArrMin(self.pos_data_m[k]) + ArrMin(self.components[k])])

\* obj.plot(ax, frame), obj.get_max_value(), obj.get_min_value() by class
Plot(obj, f) ==
    CASE obj.cls = "Axis" -> AxisPlot(obj, f)
      [] obj.cls = "Curve" -> CurvePlot(obj, f)
      [] obj.cls = "Line" -> LinePlot(obj, f)
      [] obj.cls = "Vector3" -> Vector3Plot(obj, f)
get_max_value(obj) ==
    CASE obj.cls = "Axis" -> AxisMax(obj)
      [] obj.cls = "Curve" -> CurveMax(obj)
      [] obj.cls = "Line" -> LineMax(obj)
      [] obj.cls = "Vector3" -> Vector3Max(obj)
get_min_value(obj) ==
    CASE obj.cls = "Axis" -> AxisMin(obj)
      [] obj.cls = "Curve" -> CurveMin(obj)
      [] obj.cls = "Line" -> LineMin(obj)
      [] obj.cls = "Vector3" -> Vector3Min(obj)

-----------------------------------------------------------------------------
(* yaml_plot.py.  A YAML mapping whose order matters (the plots, the keys   *)
(* of a plot) is a sequence of <<key, value>> pairs; a formatted string is  *)
(* the tuple of its parts; a path is the sequence of its components.        *)

\* "Support up to 8 axis"
MaxYAxes == 8

Has(d, key) == \E i \in 1..Len(d) : d[i][1] = key
Get(d, key) == d[CHOOSE i \in 1..Len(d) : d[i][1] = key][2]

\* re.match(r'^axis\d+$', key)
AxisKeyNames ==
    <<"axis1", "axis2", "axis3", "axis4", "axis5", "axis6",
      "axis7", "axis8", "axis9", "axis10", "axis11", "axis12">>
IsAxisKey(key) == \E i \in 1..Len(AxisKeyNames) : AxisKeyNames[i] = key

\* bool(s) of a str or None
Truthy(s) == ~IsNone(s) /\ s # ""

abs_path == <<"cwd">>
PathJoin(a, rel) == a \o rel
Dirname(path) == SubSeq(path, 1, Len(path) - 1)

\* main, lines 271-277: `args.output == '.' or '' or 'current'` is
\* (args.output == '.') or '' or 'current'
OutputPath(output, ydir) ==
    IF Truthy(output)
    THEN IF output = "." \/ Truthy("") \/ Truthy("current")
         THEN [status |-> "ok", path |-> ydir]
         ELSE [status |-> "AttributeError", path |-> None]   \* os.join does not exist
    ELSE [status |-> "ok", path |-> None]

\* parse_axis: the values of the keys matching axis<digits>, in order
RECURSIVE AxisListFrom(_, _)
AxisListFrom(plot_contents, i) ==
    IF i > Len(plot_contents) THEN << >>
    ELSE IF IsAxisKey(plot_contents[i][1])
         THEN <<plot_contents[i][2]>> \o AxisListFrom(plot_contents, i + 1)
         ELSE AxisListFrom(plot_contents, i + 1)
parse_axis(plot_contents) ==
    LET axis_list == AxisListFrom(plot_contents, 1) IN
    [axis_list |-> axis_list,
     printed |-> IF Len(axis_list) > MaxYAxes
                 THEN <<"ERROR| Cannot plot more than 8 axis">> ELSE << >>]

\* [key for key in datadict if key != x_key], in column order
RECURSIVE KeysBut(_, _)
KeysBut(columns, x_key) ==
    IF columns = << >> THEN << >>
    ELSE (IF Head(columns) # x_key THEN <<Head(columns)>> ELSE << >>)
         \o KeysBut(Tail(columns), x_key)

\* get_axis_properties; `group != ('' or ' ')` is group != ' '
FigTitle(group, plot_name) ==
    IF group # " " THEN <<group, "-", plot_name>> ELSE <<plot_name>>
\* a variant that accepts a plot without key_list
get_axis_properties_lenient(axis_properties, group, plot_name, x_key, columns) ==
    [status |-> "ok",
     mode |-> IF "mode" \notin DOMAIN axis_properties THEN "lines" ELSE axis_properties["mode"],
     y_label |-> IF "y_label" \notin DOMAIN axis_properties THEN "" ELSE axis_properties["y_label"],
     fig_title |-> FigTitle(group, plot_name),
     key_list |-> IF plot_name = "All" THEN KeysBut(columns, x_key)
                  ELSE IF "key_list" \notin DOMAIN axis_properties THEN << >>
                  ELSE axis_properties["key_list"]]
\* get_axis_properties (lines 96-131)
get_axis_properties(axis_properties, group, plot_name, x_key, columns) ==
    LET mode == IF "mode" \notin DOMAIN axis_properties THEN "lines"
                ELSE axis_properties["mode"]
        y_label == IF "y_label" \notin DOMAIN axis_properties THEN ""
                   ELSE axis_properties["y_label"]
        fig_title == FigTitle(group, plot_name)
    IN IF plot_name = "All"
       THEN [status |-> "ok", mode |-> mode, y_label |-> y_label, fig_title |-> fig_title,
             key_list |-> KeysBut(columns, x_key)]
       ELSE IF "key_list" \notin DOMAIN axis_properties
       THEN [status |-> "SystemExit", mode |-> mode, y_label |-> y_label,
             fig_title |-> fig_title, key_list |-> << >>]
       ELSE [status |-> "ok", mode |-> mode, y_label |-> y_label, fig_title |-> fig_title,
             key_list |-> axis_properties["key_list"]]

\* go.Figure()
EmptyFig == [data |-> << >>, title_text |-> None, xaxis_title |-> None, yaxes |-> {}]

\* the y-axis a trace is attached to: 'y' (also written 'y1') is 1, 'y<n>' is n
YAxisOf(yaxis_number) ==
    IF IsNone(yaxis_number) THEN 1 ELSE IF yaxis_number = 0 THEN 1 ELSE yaxis_number

\* plotly_list_from_datadict: one trace per key, each followed by update_layout
RECURSIVE plotly_list_from_datadict(_, _, _, _, _, _, _)
plotly_list_from_datadict(dd, x_key, key_list, fig, mode, title, yaxis_number) ==
    IF key_list = << >> THEN [status |-> "ok", fig |-> fig]
    ELSE IF Head(key_list) \notin DOMAIN dd THEN [status |-> "KeyError", fig |-> fig]
    ELSE plotly_list_from_datadict(
            dd, x_key, Tail(key_list),
            [fig EXCEPT !.data = Append(@, [mode |-> mode, x |-> dd[x_key],
                                            y |-> dd[Head(key_list)],
                                            name |-> Head(key_list),
                                            yaxis |-> YAxisOf(yaxis_number)]),
                        !.title_text = title,
                        !.xaxis_title = x_key],
            mode, title, yaxis_number)

\* figs_from_yaml, lines 176-208: `match i` configures yaxis<i+1> for i in 0..7
ConfigureYAxis(fig, i) ==
    IF i \in 0..(MaxYAxes - 1) THEN [fig EXCEPT !.yaxes = @ \cup {i + 1}] ELSE fig

\* figs_from_yaml, lines 159-218: the loop over axis_list from index i
RECURSIVE AxisLoop(_, _, _, _, _, _, _, _)
AxisLoop(axis_list, i, fig, group, plot_name, x_key, dd, columns) ==
    IF i >= Len(axis_list)
    THEN [status |-> "ok", fig |-> fig, fig_title |-> FigTitle(group, plot_name)]
    ELSE LET p == get_axis_properties(axis_list[i + 1], group, plot_name, x_key, columns)
         IN IF p.status # "ok" THEN [status |-> p.status, fig |-> fig, fig_title |-> None]
            ELSE LET r == plotly_list_from_datadict(dd, x_key, p.key_list,
                                                    ConfigureYAxis(fig, i),
                                                    p.mode, p.fig_title, i + 1)
                 IN IF r.status # "ok" THEN [status |-> r.status, fig |-> r.fig, fig_title |-> None]
                    ELSE AxisLoop(axis_list, i + 1, r.fig, group, plot_name, x_key, dd, columns)

\* figs_from_yaml, lines 143-245: one iteration of the loop over plot_list
PlotIteration(group, plot_name, plot_contents, dd, columns) ==
    IF ~Has(plot_contents, "x_key")
    THEN [status |-> "KeyError", printed |-> << >>, fig |-> None, fig_title |-> None]
    ELSE
    LET x_key == Get(plot_contents, "x_key") IN
    IF x_key \notin DOMAIN dd
    THEN [status |-> "SystemExit", printed |-> <<"ERROR| x_key not in csv file">>,
          fig |-> None, fig_title |-> None]
    ELSE
    LET pa == parse_axis(plot_contents) IN
    IF Len(pa.axis_list) > 0
    THEN LET r == AxisLoop(pa.axis_list, 0, EmptyFig, group, plot_name, x_key, dd, columns)
         IN [status |-> r.status,
             printed |-> pa.printed \o (IF r.status = "SystemExit"
                                        THEN <<"ERROR| key_list not in plot">> ELSE << >>),
             fig |-> r.fig, fig_title |-> r.fig_title]
    ELSE LET props == [k \in {plot_contents[j][1] : j \in 1..Len(plot_contents)} |->
                          Get(plot_contents, k)]
             p == get_axis_properties(props, group, plot_name, x_key, columns)
         IN IF p.status # "ok"
            THEN [status |-> p.status, printed |-> <<"ERROR| key_list not in plot">>,
                  fig |-> None, fig_title |-> None]
            ELSE LET r == plotly_list_from_datadict(dd, x_key, p.key_list, EmptyFig,
                                                    p.mode, p.fig_title, None)
                 IN [status |-> r.status, printed |-> << >>,
                     \* fig.update_layout(yaxis_title=y_label)
                     fig |-> [r.fig EXCEPT !.yaxes = @ \cup {1}],
                     fig_title |-> p.fig_title]

-----------------------------------------------------------------------------
(* Inputs of animate_3d                                                     *)

\* rows of the CSV file of animate_3d and of the data sets the classes get
Rows3d == 3

\* the points and the direction cosine matrices a row may hold
V3 == {<<0, 0, 0>>, <<1, 2, -1>>, <<-1, -1, -1>>}
DCMs ==
    { << <<1, 0, 0>>, <<0, 1, 0>>, <<0, 0, 1>> >>,       \* identity
      << <<-1, 0, 0>>, <<0, -1, 0>>, <<0, 0, 1>> >>,     \* half turn about z
      << <<0, -1, 0>>, <<-1, 0, 0>>, <<0, 0, -1>> >> }   \* half turn about (1, -1, 0)

\* time differences giving the strides 2 and 1 at fps = 10
Dts3d == {15, 30}

\* the data set whose row i is pts[i]
SeriesOf(pts) == [k \in 1..3 |-> [i \in 1..Len(pts) |-> pts[i][k]]]
Series(n) == {SeriesOf(pts) : pts \in [1..n -> V3]}

PosKeys == <<"hopper.inertial_pos.x [m]", "hopper.inertial_pos.y [m]",
             "hopper.inertial_pos.z [m]">>
DcmKeys == << <<"hopper.dcm.c11 [-]", "hopper.dcm.c12 [-]", "hopper.dcm.c13 [-]">>,
              <<"hopper.dcm.c21 [-]", "hopper.dcm.c22 [-]", "hopper.dcm.c23 [-]">>,
              <<"hopper.dcm.c31 [-]", "hopper.dcm.c32 [-]", "hopper.dcm.c33 [-]">> >>
x_key3d == "time [s]"

\* the CSV file of animate_3d: a uniform time column, a position and a
\* direction cosine matrix per row
Csv3d(dt, pts, dcms) ==
    [key \in {x_key3d} \cup {PosKeys[k] : k \in 1..3}
             \cup {DcmKeys[r][c] : r \in 1..3, c \in 1..3} |->
        IF key = x_key3d THEN [i \in 1..Len(pts) |-> (i - 1) * dt]
        ELSE IF \E k \in 1..3 : PosKeys[k] = key
        THEN [i \in 1..Len(pts) |-> pts[i][CHOOSE k \in 1..3 : PosKeys[k] = key]]
        ELSE LET rc == CHOOSE rc \in (1..3) \X (1..3) : DcmKeys[rc[1]][rc[2]] = key
             IN [i \in 1..Len(pts) |-> dcms[i][rc[1]][rc[2]]]]

\* object_list of lines 241-279
MainObjectList(dd) ==
    << Axis(<<dd[PosKeys[1]], dd[PosKeys[2]], dd[PosKeys[3]]>>,
            <<dd[DcmKeys[1][1]], dd[DcmKeys[1][2]], dd[DcmKeys[1][3]]>>,
            <<dd[DcmKeys[2][1]], dd[DcmKeys[2][2]], dd[DcmKeys[2][3]]>>,
            <<dd[DcmKeys[3][1]], dd[DcmKeys[3][2]], dd[DcmKeys[3][3]]>>,
            1),
       Curve(<<dd[PosKeys[1]], dd[PosKeys[2]], dd[PosKeys[3]]>>, "blue", None) >>

\* one object of a class, built from the data sets a and b
ClassCtors2 == {"Curve.offset", "Line", "Vector3"}
ClassCtors1 == {"Curve", "Vector3.from_origin", "Axis.default", "Axis.origin"}
Construct(c, a, b) ==
    CASE c = "Curve" -> Curve(a, "black", None)
      [] c = "Curve.offset" -> Curve(a, "black", b)
      [] c = "Line" -> Line(a, b, "black")
      [] c = "Vector3" -> Vector3(a, b, "black")
      [] c = "Vector3.from_origin" -> Vector3FromOrigin(a, "black")
      [] c = "Axis.default" -> Axis(a, None, None, None, 1)
      [] c = "Axis.origin" -> AxisOrigin(a[1], 2)

\* number of rows of the data an object holds
RowsOf(obj) == IF obj.cls = "Line" THEN Len(obj.start_m[1]) ELSE Len(obj.pos_data_m[1])

\* max / min of lines 304-305 over the object list
RECURSIVE ListMax(_)
ListMax(vals) ==
    IF Len(vals) = 1 THEN vals[1] ELSE Max2(vals[1], ListMax(Tail(vals)))
RECURSIVE ListMin(_)
ListMin(vals) ==
    IF Len(vals) = 1 THEN vals[1] ELSE Min2(vals[1], ListMin(Tail(vals)))
\* a lower limit without the margin of 2
ViewMinNoMargin(objs) == ListMin([i \in 1..Len(objs) |-> get_min_value(objs[i])])
ViewMax(objs) == ListMax([i \in 1..Len(objs) |-> get_max_value(objs[i]) + 2])
ViewMin(objs) == ListMin([i \in 1..Len(objs) |-> get_min_value(objs[i]) - 2])

\* the artists the objects draw at a frame (lines 313-314)
RECURSIVE PlotAll(_, _)
PlotAll(objs, f) ==
    IF objs = << >> THEN << >> ELSE Plot(Head(objs), f) \o PlotAll(Tail(objs), f)

-----------------------------------------------------------------------------
(* Inputs of yaml_plot                                                      *)

\* the largest number of axis<n> keys of a plot
NAxes == 9
AxisCounts == {2, MaxYAxes, NAxes}

YamlColumns == <<"time [s]", "x", "y">>
YamlCsv == [key \in {"time [s]", "x", "y"} |->
              IF key = "time [s]" THEN <<0, 3>> ELSE DataColumn(key, 2)]

\* a plot without axes
SimplePlots ==
    {<< <<"x_key", xk>> >> : xk \in {"time [s]", "bogus"}}
    \cup {<< <<"x_key", xk>>, <<"key_list", <<"x">>>> >> : xk \in {"time [s]", "bogus"}}
\* a plot with n axes; axis `missing` (0: none) has no key_list
AxisPlot_(n, missing) ==
    << <<"x_key", "time [s]">>, <<"mode", "lines">> >>
    \o [i \in 1..n |-> <<AxisKeyNames[i],
                          IF i = missing THEN [y_label |-> "u"]
                          ELSE [key_list |-> <<"x">>, y_label |-> "u"]>>]
AxisPlots == {AxisPlot_(n, m) : n \in AxisCounts, m \in {0, 1}}
           \cup {AxisPlot_(n, n) : n \in AxisCounts}
PlotContents == SimplePlots \cup AxisPlots

\* the Plots mapping: up to two plots, the names distinct
PlotLists ==
    {<< >>}
    \cup {<< <<n1, c1>> >> : n1 \in {"All", "P"}, c1 \in PlotContents}
    \cup {<< <<nn[1], c1>>, <<nn[2], c2>> >> :
            nn \in {<<"P", "Q">>, <<"P", "All">>},
            c1 \in PlotContents, c2 \in PlotContents}

YamlDicts ==
    {[DataPath |-> <<"d.csv">>], [GroupName |-> "G"]}
    \cup {[DataPath |-> <<"d.csv">>, Plots |-> pl] : pl \in PlotLists}
    \cup {[GroupName |-> g, Plots |-> pl] : g \in {" ", "G"}, pl \in PlotLists}

Inputs == {<<"conf", "cfg.yaml">>}
Outputs == {None, "", ".", "current", "out"}

-----------------------------------------------------------------------------
(* Initial states: one script, about to start on one input                  *)

NoFrames ==
    /\ frames_data = None /\ frame = None /\ frame_seq = << >> /\ plotted = None
    /\ keyframes = {} /\ frame_end = None
No3d ==
    /\ ctor = None /\ object_list = None /\ max = None /\ min = None /\ ax = None
NoYaml ==
    /\ args = None /\ yaml_dict = None /\ yaml_dir = None /\ output_path = None
    /\ group_name = None /\ fig_list = << >> /\ shown = << >> /\ written = << >>
    /\ stdout = << >>
NotRun ==
    /\ pc = "start" /\ datadict = None /\ samples = None /\ error = None
    /\ exit_status = None

\* csv_to_datadict of file_handling.py called on any file, fps and time_key
InitFileHandling ==
    /\ script = "file_handling"
    /\ fps \in FpsValues
    /\ time_key = "time [s]"
    /\ csv \in {CsvFile("time [s]", t, {"x", "y"}) : t \in TimeColumns}
               \cup {CsvNoTime({"x", "y"}, n) : n \in 0..MaxRows}
    /\ NotRun /\ NoFrames /\ No3d /\ NoYaml

\* animate_lines.py, lines 80-89
InitLines ==
    /\ script = "animate_lines"
    /\ fps = FpsLines
    /\ time_key = "angle [rad]"
    /\ csv \in {CsvFile("angle [rad]", t, LinesKeys) : t \in TimeColumns}
    /\ NotRun /\ NoFrames /\ No3d /\ NoYaml

\* plot_trajectory_quaternion.py, lines 33-75
InitQuat ==
    /\ script = "plot_trajectory_quaternion"
    /\ fps = FpsQuat
    /\ time_key = "time [s]"
    /\ csv \in {CsvFile("time [s]", t, QuatKeys) : t \in TimeColumns}
    /\ NotRun /\ NoFrames /\ No3d /\ NoYaml

\* animate_3d.py, lines 237-326
Init3d ==
    /\ script = "animate_3d"
    /\ fps = Fps3d
    /\ time_key = x_key3d
    /\ csv \in UNION {{Csv3d(dt, pts, dcms) :
                         dt \in Dts3d, pts \in [1..n -> V3], dcms \in [1..n -> DCMs]} :
                      n \in 2..Rows3d}
    /\ ctor = "main" /\ object_list = None /\ max = None /\ min = None /\ ax = None
    /\ NotRun /\ NoFrames /\ NoYaml

\* the classes of animate_3d.py, each on any data set
InitClasses ==
    /\ script = "animate_3d.classes"
    /\ fps = None /\ time_key = None /\ csv = None
    /\ ctor \in UNION {{[name |-> c, a |-> a, b |-> b] :
                          c \in ClassCtors2, a \in Series(n), b \in Series(n)}
                       \cup {[name |-> c, a |-> a, b |-> a] :
                          c \in ClassCtors1, a \in Series(n)} :
                       n \in 1..Rows3d}
    /\ object_list = None /\ max = None /\ min = None /\ ax = None
    /\ NotRun /\ NoFrames /\ NoYaml

\* yaml_plot.py, main
InitYaml ==
    /\ script = "yaml_plot"
    /\ fps = None /\ time_key = None
    /\ csv = YamlCsv
    /\ \/ /\ args = [input |-> None, output |-> None, data |-> None, xkey |-> None]
          /\ yaml_dict = [DataPath |-> <<"d.csv">>]
       \/ /\ args \in [input : Inputs, output : Outputs,
                       data : {None, <<"d.csv">>}, xkey : {None}]
          /\ yaml_dict \in YamlDicts
          /\ ~IsNone(args.data) => "DataPath" \notin DOMAIN yaml_dict
    /\ yaml_dir = None /\ output_path = None /\ group_name = None
    /\ fig_list = << >> /\ shown = << >> /\ written = << >> /\ stdout = << >>
    /\ NotRun /\ NoFrames /\ No3d

Init ==
    \/ InitFileHandling
    \/ InitLines
    \/ InitQuat
    \/ Init3d
    \/ InitClasses
    \/ InitYaml

-----------------------------------------------------------------------------
(* Actions                                                                  *)

loaderVars == <<csv, fps, time_key>>
framesVars == <<frames_data, frame, frame_seq, plotted, keyframes, frame_end>>
a3dVars == <<ctor, object_list, max, min, ax>>
yamlVars == <<args, yaml_dict, yaml_dir, output_path, group_name, fig_list,
              shown, written, stdout>>

\* an uncaught exception, or sys.exit(1): the process ends with status 1
Raise(exc) == pc' = "exit" /\ error' = exc /\ exit_status' = 1
\* the script runs to its end
Finish == pc' = "done" /\ error' = None /\ exit_status' = 0

\* the call of csv_to_datadict that opens a script
LoadWith(r, next) ==
    /\ samples' = r.samples
    /\ datadict' = r.datadict
    /\ IF r.status = "ok" THEN pc' = next /\ UNCHANGED <<error, exit_status>>
       ELSE Raise(r.status)

\* file_handling.py: csv_to_datadict called and returning
FileHandlingLoad ==
    /\ script = "file_handling" /\ pc = "start"
    /\ LET r == csv_to_datadict(csv, fps, time_key) IN
       /\ samples' = r.samples
       /\ datadict' = r.datadict
       /\ IF r.status = "ok" THEN Finish ELSE Raise(r.status)
    /\ UNCHANGED <<script, loaderVars, framesVars, a3dVars, yamlVars>>

\* animate_lines.py, line 83
LinesLoad ==
    /\ script = "animate_lines" /\ pc = "start"
    /\ LoadWith(lines_csv_to_datadict(csv, fps, time_key), "loaded")
    /\ UNCHANGED <<script, loaderVars, framesVars, a3dVars, yamlVars>>

\* animate_lines.py, lines 85-87
LinesGetFrames ==
    /\ script = "animate_lines" /\ pc = "loaded"
    /\ frames_data' = get_frames_data(datadict)
    /\ pc' = "animate"
    /\ UNCHANGED <<script, loaderVars, datadict, samples, error, exit_status,
                   frame, frame_seq, plotted, keyframes, frame_end, a3dVars, yamlVars>>

\* animate_lines.py, update called with the next frame of the animation
LinesUpdate ==
    /\ script = "animate_lines" /\ pc = "animate"
    /\ Len(frame_seq) < Len(Frames(Len(frames_data)))
    /\ LET f == Frames(Len(frames_data))[Len(frame_seq) + 1] IN
       /\ frame' = f
       /\ frame_seq' = Append(frame_seq, f)
       /\ plotted' = [title |-> <<"Frame ", f + 1>>, lines |-> frames_data[f + 1]]
    /\ UNCHANGED <<script, pc, loaderVars, datadict, samples, error, exit_status,
                   frames_data, keyframes, frame_end, a3dVars, yamlVars>>

\* animate_lines.py: repeat=False, the animation ends after its last frame
LinesEnd ==
    /\ script = "animate_lines" /\ pc = "animate"
    /\ Len(frame_seq) = Len(Frames(Len(frames_data)))
    /\ Finish
    /\ UNCHANGED <<script, loaderVars, datadict, samples, framesVars, a3dVars, yamlVars>>

\* plot_trajectory_quaternion.py, lines 34-42
QuatLoad ==
    /\ script = "plot_trajectory_quaternion" /\ pc = "start"
    /\ LoadWith(quat_csv_to_datadict(csv, fps, time_key), "loaded")
    /\ UNCHANGED <<script, loaderVars, framesVars, a3dVars, yamlVars>>

\* plot_trajectory_quaternion.py, lines 44-59: one iteration of the loop
QuatKeyframe ==
    /\ script = "plot_trajectory_quaternion" /\ pc = "loaded"
    /\ Len(frame_seq) < Len(datadict["time [s]"])
    /\ LET i == Len(frame_seq) IN
       /\ frame' = i
       /\ frame_seq' = Append(frame_seq, i)
       /\ keyframes' = set_object_transform(keyframes, i, PosOf(datadict, i), QuatOf(datadict, i))
    /\ UNCHANGED <<script, pc, loaderVars, datadict, samples, error, exit_status,
                   frames_data, plotted, frame_end, a3dVars, yamlVars>>

\* plot_trajectory_quaternion.py, lines 63-75
QuatEnd ==
    /\ script = "plot_trajectory_quaternion" /\ pc = "loaded"
    /\ Len(frame_seq) = Len(datadict["time [s]"])
    /\ IF IsNone(frame)
       THEN Raise("NameError") /\ UNCHANGED frame_end
       ELSE frame_end' = frame /\ Finish
    /\ UNCHANGED <<script, loaderVars, datadict, samples, frames_data, frame,
                   frame_seq, plotted, keyframes, a3dVars, yamlVars>>

\* animate_3d.py, line 238
A3dLoad ==
    /\ script = "animate_3d" /\ pc = "start"
    /\ LoadWith(csv_to_datadict(csv, fps, time_key), "loaded")
    /\ UNCHANGED <<script, loaderVars, framesVars, a3dVars, yamlVars>>

\* animate_3d.py, lines 241-305
A3dObjects ==
    /\ script = "animate_3d" /\ pc = "loaded"
    /\ object_list' = MainObjectList(datadict)
    /\ max' = ViewMax(object_list')
    /\ min' = ViewMin(object_list')
    /\ pc' = "animate"
    /\ UNCHANGED <<script, loaderVars, datadict, samples, error, exit_status,
                   framesVars, ctor, ax, yamlVars>>

\* animate_3d.py, lines 308-325: update called with the next frame;
\* the animation repeats (FuncAnimation's default)
A3dUpdate ==
    /\ script = "animate_3d" /\ pc = "animate"
    /\ LET frames == Frames(Len(datadict[x_key3d]) - 1)
           i == IF Len(frame_seq) >= Len(frames) THEN 0 ELSE Len(frame_seq)
       IN /\ Len(frames) > 0
          /\ frame' = frames[i + 1]
          /\ frame_seq' = SubSeq(frame_seq, 1, i) \o <<frames[i + 1]>>
          /\ ax' = [artists |-> PlotAll(object_list, frame'),
                    title |-> datadict[x_key3d][frame' + 1],
                    xlim |-> <<min, max>>, ylim |-> <<min, max>>, zlim |-> <<min, max>>]
    /\ UNCHANGED <<script, pc, loaderVars, datadict, samples, error, exit_status,
                   frames_data, plotted, keyframes, frame_end,
                   ctor, object_list, max, min, yamlVars>>

\* a class of animate_3d.py constructed on a data set
ClassConstruct ==
    /\ script = "animate_3d.classes" /\ pc = "start"
    /\ object_list' = <<Construct(ctor.name, ctor.a, ctor.b)>>
    /\ max' = ViewMax(object_list')
    /\ min' = ViewMin(object_list')
    /\ pc' = "animate"
    /\ UNCHANGED <<script, loaderVars, datadict, samples, error, exit_status,
                   framesVars, ctor, ax, yamlVars>>

\* obj.plot(ax, frame) for the next frame in range
ClassPlot ==
    /\ script = "animate_3d.classes" /\ pc = "animate"
    /\ Len(frame_seq) < RowsOf(object_list[1])
    /\ frame' = Len(frame_seq)
    /\ frame_seq' = Append(frame_seq, frame')
    /\ ax' = [artists |-> PlotAll(object_list, frame'),
              title |-> None,
              xlim |-> <<min, max>>, ylim |-> <<min, max>>, zlim |-> <<min, max>>]
    /\ UNCHANGED <<script, pc, loaderVars, datadict, samples, error, exit_status,
                   frames_data, plotted, keyframes, frame_end,
                   ctor, object_list, max, min, yamlVars>>

\* yaml_plot.py, main, lines 261-277
YamlArgs ==
    /\ script = "yaml_plot" /\ pc = "start"
    /\ IF IsNone(args.input)
       THEN /\ stdout' = Append(stdout, "ERROR| Please use -i for yaml config path")
            /\ Raise("SystemExit")
            /\ UNCHANGED <<yaml_dir, output_path>>
       ELSE LET yaml_path == PathJoin(abs_path, args.input)
                o == OutputPath(args.output, Dirname(yaml_path))
            IN /\ yaml_dir' = Dirname(yaml_path)
               /\ output_path' = o.path
               /\ stdout' = stdout
               /\ IF o.status = "ok"
                  THEN pc' = "yaml" /\ UNCHANGED <<error, exit_status>>
                  ELSE Raise(o.status)
    /\ UNCHANGED <<script, loaderVars, datadict, samples, framesVars, a3dVars,
                   args, yaml_dict, group_name, fig_list, shown, written>>

\* yaml_plot.py, main, lines 279-305
YamlParse ==
    /\ script = "yaml_plot" /\ pc = "yaml"
    /\ IF IsNone(args.data) /\ "DataPath" \notin DOMAIN yaml_dict
       THEN /\ stdout' = Append(stdout, "ERROR| DataPath field not found in yaml")
            /\ Raise("SystemExit")
            /\ UNCHANGED group_name
       ELSE /\ group_name' = IF "GroupName" \notin DOMAIN yaml_dict THEN ""
                             ELSE yaml_dict["GroupName"]
            /\ IF "Plots" \notin DOMAIN yaml_dict
               THEN /\ stdout' = Append(stdout, "ERROR| Plots field not found in yaml")
                    /\ Raise("SystemExit")
               ELSE /\ stdout' = stdout
                    /\ pc' = "csv"
                    /\ UNCHANGED <<error, exit_status>>
    /\ UNCHANGED <<script, loaderVars, datadict, samples, framesVars, a3dVars,
                   args, yaml_dict, yaml_dir, output_path, fig_list, shown, written>>

\* yaml_plot.py, main, lines 308-311
YamlLoadCsv ==
    /\ script = "yaml_plot" /\ pc = "csv"
    /\ datadict' = yaml_csv_to_datadict(csv)
    /\ pc' = "figs"
    /\ UNCHANGED <<script, loaderVars, samples, error, exit_status, framesVars,
                   a3dVars, yamlVars>>

\* yaml_plot.py, figs_from_yaml: one iteration of the loop over the plots
YamlFig ==
    /\ script = "yaml_plot" /\ pc = "figs"
    /\ Len(fig_list) < Len(yaml_dict["Plots"])
    /\ LET plot == yaml_dict["Plots"][Len(fig_list) + 1]
           r == PlotIteration(group_name, plot[1], plot[2], datadict, YamlColumns)
       IN /\ stdout' = stdout \o r.printed
          /\ IF r.status = "ok"
             THEN /\ fig_list' = Append(fig_list, <<r.fig_title, r.fig>>)
                  /\ UNCHANGED <<pc, error, exit_status>>
             ELSE /\ Raise(r.status)
                  /\ UNCHANGED fig_list
    /\ UNCHANGED <<script, loaderVars, datadict, samples, framesVars, a3dVars,
                   args, yaml_dict, yaml_dir, output_path, group_name, shown, written>>

\* yaml_plot.py, figs_from_yaml returns (line 246)
YamlFigsEnd ==
    /\ script = "yaml_plot" /\ pc = "figs"
    /\ Len(fig_list) = Len(yaml_dict["Plots"])
    /\ pc' = "output"
    /\ UNCHANGED <<script, loaderVars, datadict, samples, error, exit_status,
                   framesVars, a3dVars, yamlVars>>

\* yaml_plot.py, output_fig_list: one iteration of its loop
YamlOutput ==
    /\ script = "yaml_plot" /\ pc = "output"
    /\ Len(shown) + Len(written) < Len(fig_list)
    /\ LET name == fig_list[Len(shown) + Len(written) + 1][1] IN
       IF IsNone(output_path)
       THEN shown' = Append(shown, name) /\ UNCHANGED written
       ELSE /\ written' = Append(written, [dir |-> output_path, file |-> <<name, ".html">>])
            /\ UNCHANGED shown
    /\ UNCHANGED <<script, pc, loaderVars, datadict, samples, error, exit_status,
                   framesVars, a3dVars, args, yaml_dict, yaml_dir, output_path,
                   group_name, fig_list, stdout>>

\* yaml_plot.py: main returns
YamlEnd ==
    /\ script = "yaml_plot" /\ pc = "output"
    /\ Len(shown) + Len(written) = Len(fig_list)
    /\ Finish
    /\ UNCHANGED <<script, loaderVars, datadict, samples, framesVars, a3dVars, yamlVars>>

Next ==
    \/ FileHandlingLoad
    \/ LinesLoad \/ LinesGetFrames \/ LinesUpdate \/ LinesEnd
    \/ QuatLoad \/ QuatKeyframe \/ QuatEnd
    \/ A3dLoad \/ A3dObjects \/ A3dUpdate
    \/ ClassConstruct \/ ClassPlot
    \/ YamlArgs \/ YamlParse \/ YamlLoadCsv \/ YamlFig \/ YamlFigsEnd
    \/ YamlOutput \/ YamlEnd

Spec == Init /\ [][Next]_vars

-----------------------------------------------------------------------------
(* Properties of the loaders                                                *)

\* csv_to_datadict of file_handling.py has returned a datadict
Returned ==
    \/ script = "file_handling" /\ pc = "done"
    \/ script = "animate_3d" /\ pc \in {"loaded", "animate"}
\* csv_to_datadict of file_handling.py has returned or raised
Called == script \in {"file_handling", "animate_3d"} /\ pc # "start"

\* dt = time[1] - time[0] of the source is defined
HasDt == time_key \in DOMAIN csv /\ Len(csv[time_key]) >= 2
SourceDt == csv[time_key][2] - csv[time_key][1]
\* the time column is uniformly sampled
Uniform ==
    \A i \in 1..(Len(csv[time_key]) - 1) : csv[time_key][i + 1] - csv[time_key][i] = SourceDt

\* C1: with a stride s >= 1 every column of the returned datadict, the time
\* column included, has ceil(N / s) rows, row i of every column is row i * s
\* of the source, and the keys are the columns of the CSV file.
C1_SameStride ==
    (Returned /\ samples >= 1) =>
        /\ DOMAIN datadict = DOMAIN csv
        /\ \A key \in DOMAIN csv :
              /\ Len(datadict[key]) = (Len(csv[key]) + samples - 1) \div samples
              /\ \A i \in 1..Len(datadict[key]) :
                    datadict[key][i] = csv[key][(i - 1) * samples + 1]

C1_Witness ==
    /\ script = "file_handling" /\ pc = "done"
    /\ samples = 2 /\ Len(csv["x"]) = 3
    /\ datadict["x"] = << <<"x", 0>>, <<"x", 2>> >>
    /\ Len(datadict[time_key]) = 2

\* C2: for a uniformly sampled source with 0 < dt <= 1 / fps the stride s
\* satisfies s * dt <= 1 / fps < (s + 1) * dt, and consecutive rows of the
\* returned datadict are s * dt apart in time.
C2_Resampled ==
    (Returned /\ SourceDt > 0 /\ Uniform /\ SourceDt * fps <= TicksPerSecond) =>
        /\ samples * SourceDt * fps <= TicksPerSecond
        /\ TicksPerSecond < (samples + 1) * SourceDt * fps
        /\ \A i \in 1..(Len(datadict[time_key]) - 1) :
              datadict[time_key][i + 1] - datadict[time_key][i] = samples * SourceDt

C2_Witness ==
    /\ script = "file_handling" /\ pc = "done"
    /\ Uniform /\ SourceDt = 2 /\ fps = FpsLines
    /\ samples = 2 /\ datadict[time_key] = <<0, 4>>

\* C10: a source sampled more coarsely than the frame rate (dt > 1 / fps > 0)
\* makes the stride 0 and the call fail with an error, no datadict returned;
\* whenever the call returns for a dt > 0 the stride was >= 1 and row 0 of the
\* source is row 0 of the result.
C10_NoValidation ==
    /\ (Called /\ HasDt /\ SourceDt > 0 /\ SourceDt * fps > TicksPerSecond) =>
          /\ pc = "exit" /\ error = "ValueError" /\ exit_status = 1
          /\ samples = 0
          /\ IsNone(datadict)
    /\ (Returned /\ SourceDt > 0) =>
          /\ samples >= 1
          /\ \A key \in DOMAIN csv : datadict[key][1] = csv[key][1]

C10_Witness ==
    /\ script = "file_handling" /\ pc = "exit" /\ error = "ValueError"
    /\ HasDt /\ SourceDt = 6 /\ fps = FpsLines /\ Len(csv[time_key]) = 3

\* two results of csv_to_datadict agree: both fail with the same exception,
\* or both return the same stride and the same datadict
SameResult(r1, r2) ==
    /\ r1.status = r2.status
    /\ r1.status = "ok" => r1.samples = r2.samples /\ r1.datadict = r2.datadict

\* the result a script's state holds after its call of csv_to_datadict
StateHolds(r) ==
    IF r.status = "ok"
    THEN pc # "exit" /\ samples = r.samples /\ datadict = r.datadict
    ELSE pc = "exit" /\ error = r.status

\* C4: the copies of csv_to_datadict in file_handling.py, animate_lines.py and
\* plot_trajectory_quaternion.py return the same datadict or fail alike on
\* every input, and what each script holds after its call is that result;
\* the copy in yaml_plot.py returns what the others return at stride 1.
C4_Duplicates ==
    /\ script \in {"file_handling", "animate_lines", "plot_trajectory_quaternion"} =>
          LET r == csv_to_datadict(csv, fps, time_key) IN
          /\ SameResult(r, lines_csv_to_datadict(csv, fps, time_key))
          /\ SameResult(r, quat_csv_to_datadict(csv, fps, time_key))
          /\ pc # "start" => StateHolds(r)
          /\ (r.status = "ok" /\ r.samples = 1) => r.datadict = yaml_csv_to_datadict(csv)
    /\ (script = "yaml_plot" /\ pc \in {"figs", "output", "done"}) =>
          datadict = [key \in DOMAIN csv |-> SliceStep(csv[key], 1)]

C4_Witness ==
    /\ script = "animate_lines" /\ pc = "loaded"
    /\ samples = 2 /\ Len(csv[time_key]) = 4 /\ Len(datadict[time_key]) = 2

-----------------------------------------------------------------------------
(* Properties of the frame loops                                            *)

\* the four lines of row i (0-based) of the subsampled datadict
LinesOfRow(i) ==
    [j \in 1..4 |->
        LET name == <<"a", "b", "g", "l">>[j] IN
        << <<datadict["tvc." \o name \o ".start_x [m]"][i + 1],
             datadict["tvc." \o name \o ".start_y [m]"][i + 1]>>,
           <<datadict["tvc." \o name \o ".end_x [m]"][i + 1],
             datadict["tvc." \o name \o ".end_y [m]"][i + 1]>> >>]

\* the keyframes of the rows 0..n-1 of the subsampled datadict
KeyframesOfRows(n) ==
    {[data_path |-> "location", frame |-> i,
      value |-> <<datadict["body.pos.x [m]"][i + 1], datadict["body.pos.y [m]"][i + 1],
                  datadict["body.pos.z [m]"][i + 1]>>] : i \in 0..(n - 1)}
    \cup
    {[data_path |-> "rotation_quaternion", frame |-> i,
      value |-> <<datadict["body.quat.a [-]"][i + 1], datadict["body.quat.b [-]"][i + 1],
                  datadict["body.quat.c [-]"][i + 1], datadict["body.quat.d [-]"][i + 1]>>] :
        i \in 0..(n - 1)}

\* C3: in animate_lines and plot_trajectory_quaternion the frames are
\* 0, 1, ..., N-1 in this order, N the number of rows of the subsampled
\* datadict; frame i shows row i of every column; at the end every row has
\* been used by exactly one frame; plot_trajectory_quaternion inserts a
\* location and a rotation keyframe at every frame and sets frame_end to N-1.
C3_FramePerRow ==
    /\ (script = "animate_lines" /\ pc \in {"animate", "done"}) =>
          /\ \A key \in DOMAIN datadict : Len(datadict[key]) = Len(frames_data)
          /\ Len(frame_seq) <= Len(frames_data)
          /\ frame_seq = Range(Len(frame_seq))
          /\ frame_seq # << >> =>
                /\ frame = frame_seq[Len(frame_seq)]
                /\ plotted.lines = LinesOfRow(frame)
          /\ pc = "done" => Len(frame_seq) = Len(frames_data)
    /\ (script = "plot_trajectory_quaternion" /\ pc \in {"loaded", "done"}) =>
          /\ Len(frame_seq) <= Len(datadict["time [s]"])
          /\ frame_seq = Range(Len(frame_seq))
          /\ keyframes = KeyframesOfRows(Len(frame_seq))
          /\ pc = "done" =>
                /\ Len(frame_seq) = Len(datadict["time [s]"])
                /\ \A key \in DOMAIN datadict : Len(datadict[key]) = Len(frame_seq)
                /\ frame_end = Len(frame_seq) - 1

C3_Witness ==
    /\ script = "plot_trajectory_quaternion" /\ pc = "done"
    /\ samples = 2 /\ Len(csv[time_key]) = 4
    /\ frame_seq = <<0, 1>> /\ frame_end = 1 /\ Cardinality(keyframes) = 4

-----------------------------------------------------------------------------
(* Properties of the drawable classes                                       *)

\* every coordinate of every point of the artists lies in [lo, hi]
Within(artists, lo, hi) ==
    \A j \in 1..Len(artists) : \A i \in 1..Len(artists[j].points) : \A k \in 1..3 :
        lo <= artists[j].points[i][k] /\ artists[j].points[i][k] <= hi

\* what obj draws at every frame in range lies in its bounding extents
Bounded(obj) ==
    \A f \in 0..(RowsOf(obj) - 1) :
        Within(Plot(obj, f), get_min_value(obj), get_max_value(obj))

Constructed == script \in {"animate_3d", "animate_3d.classes"} /\ pc = "animate"

\* what the single object of the list has just drawn lies in its extents
DrawnBounded ==
    (script = "animate_3d.classes" /\ frame_seq # << >>) =>
        Within(ax.artists, get_min_value(object_list[1]), get_max_value(object_list[1]))

\* C5: every coordinate of every point a Curve or a Line draws at a frame in
\* range lies in [get_min_value(), get_max_value()] of that object.
C5_CurveLineExtents ==
    Constructed =>
        \A n \in 1..Len(object_list) :
            object_list[n].cls \in {"Curve", "Line"} =>
                /\ Bounded(object_list[n])
                /\ Len(object_list) = 1 => DrawnBounded

C5_Witness ==
    /\ script = "animate_3d.classes" /\ pc = "animate"
    /\ ctor.name = "Curve.offset"
    /\ frame_seq = <<0, 1, 2>>
    /\ ax.artists[1].points = << <<2, 4, -2>>, <<-2, -2, -2>> >>
    /\ get_max_value(object_list[1]) = 4 /\ get_min_value(object_list[1]) = -2

\* C6: every coordinate of every point an Axis or a Vector3 draws at a frame
\* in range (the origin and the three tips, the tail and the head) lies in
\* [get_min_value(), get_max_value()] of that object.
C6_AxisVectorExtents ==
    Constructed =>
        \A n \in 1..Len(object_list) :
            object_list[n].cls \in {"Axis", "Vector3"} =>
                /\ Bounded(object_list[n])
                /\ Len(object_list) = 1 => DrawnBounded

-----------------------------------------------------------------------------
(* Properties of yaml_plot                                                  *)

\* the plots of the configuration, << >> without a Plots field
ConfigPlots == IF "Plots" \in DOMAIN yaml_dict THEN yaml_dict["Plots"] ELSE << >>

\* the plot (or, for a plot with axes, one of its axes) lacks key_list
LacksKeyList(plot_contents) ==
    LET axis_list == AxisListFrom(plot_contents, 1) IN
    IF axis_list = << >> THEN ~Has(plot_contents, "key_list")
    ELSE \E i \in 1..Len(axis_list) : "key_list" \notin DOMAIN axis_list[i]

\* the inputs on which yaml_plot is to fail
YamlMustFail ==
    \/ IsNone(args.input)
    \/ "DataPath" \notin DOMAIN yaml_dict /\ IsNone(args.data)
    \/ "Plots" \notin DOMAIN yaml_dict
    \/ \E n \in 1..Len(ConfigPlots) :
          /\ Has(ConfigPlots[n][2], "x_key")
          /\ Get(ConfigPlots[n][2], "x_key") \notin DOMAIN csv
    \/ \E n \in 1..Len(ConfigPlots) :
          ConfigPlots[n][1] # "All" /\ LacksKeyList(ConfigPlots[n][2])

\* C7: a plot with more than 8 keys axis<digits> gets the error 'Cannot plot
\* more than 8 axis' reported, and no trace of any figure is attached to a
\* y-axis beyond the eighth or to a y-axis the layout does not configure.
C7_AtMostEightAxes ==
    script = "yaml_plot" =>
        /\ \A n \in 1..Len(fig_list) :
              /\ Len(AxisListFrom(ConfigPlots[n][2], 1)) > MaxYAxes =>
                    \E m \in 1..Len(stdout) : stdout[m] = "ERROR| Cannot plot more than 8 axis"
              /\ \A t \in 1..Len(fig_list[n][2].data) :
                    /\ fig_list[n][2].data[t].yaxis <= MaxYAxes
                    /\ fig_list[n][2].data[t].yaxis \in fig_list[n][2].yaxes

\* C8: on an input on which it is to fail, yaml_plot shows and writes nothing,
\* never leaves the loop over the plots for its output loop, and when it ends
\* it ends with exit status 1.
C8_FailsBeforeOutput ==
    (script = "yaml_plot" /\ YamlMustFail) =>
        /\ shown = << >> /\ written = << >>
        /\ pc \in {"start", "yaml", "csv", "figs", "exit"}
        /\ pc = "figs" => Len(fig_list) < Len(ConfigPlots)
        /\ pc = "exit" => exit_status = 1 /\ error \in {"SystemExit", "KeyError"}

C8_Witness ==
    /\ script = "yaml_plot" /\ pc = "exit" /\ YamlMustFail
    /\ Len(fig_list) = 1 /\ Len(fig_list[1][2].data) = 1
    /\ ~IsNone(output_path)
    /\ exit_status = 1

\* the file a figure of the given title is written to in directory dir
HtmlIn(dir, title) == [dir |-> dir, file |-> <<title, ".html">>]
Titles == [n \in 1..Len(fig_list) |-> fig_list[n][1]]

\* C9: without -o every figure is shown and none written; with -o '.', ''
\* or 'current' every figure is written as <title>.html into the directory
\* of the YAML file; with any other -o into the current working directory
\* joined with that value.
C9_OutputDestination ==
    (script = "yaml_plot" /\ pc = "done") =>
        IF IsNone(args.output)
        THEN shown = Titles /\ written = << >>
        ELSE /\ shown = << >>
             /\ written =
                  [n \in 1..Len(fig_list) |->
                      HtmlIn(IF args.output \in {".", "", "current"}
                             THEN Dirname(PathJoin(abs_path, args.input))
                             ELSE PathJoin(abs_path, <<args.output>>),
                             fig_list[n][1])]

-----------------------------------------------------------------------------
(* Properties of the animation of animate_3d.py                             *)

Animating3d == script = "animate_3d" /\ pc = "animate"

\* number of subsampled rows
N3d == Len(datadict[x_key3d])

\* row r (from 0) of the subsampled position columns
PosRow(r) == <<datadict[PosKeys[1]][r + 1], datadict[PosKeys[2]][r + 1],
               datadict[PosKeys[3]][r + 1]>>

\* the frames update has been called with are 0, 1, ... in order, all below
\* N - 1; the frame is a valid index of every column; the title and the axis
\* are those of the row of the frame; the curve is the rows before the frame
FramesInRange ==
    Animating3d =>
        /\ Len(frame_seq) <= N3d - 1
        /\ frame_seq = [i \in 1..Len(frame_seq) |-> i - 1]
        /\ frame_seq # << >> =>
              /\ frame = frame_seq[Len(frame_seq)]
              /\ frame \in 0..(N3d - 2)
              /\ \A key \in DOMAIN datadict : frame + 1 <= Len(datadict[key])
              /\ ax.title = datadict[x_key3d][frame + 1]
              /\ Len(ax.artists) = 4
              /\ \A j \in 1..3 : ax.artists[j].points[1] = PosRow(frame)
              /\ ax.artists[4].points = [i \in 1..frame |-> PosRow(i - 1)]
              /\ Len(ax.artists[4].points) <= N3d - 2

\* update is called with 0 first and with the successor of the last frame
\* after that, starting over at 0 after N - 2
NextFrame ==
    (Animating3d /\ pc' = "animate") =>
        frame' = IF IsNone(frame) THEN 0 ELSE (frame + 1) % (N3d - 1)

\* C11: animate_3d animates frames = N - 1 of the N subsampled rows: update
\* and every plot get exactly the frames 0..N-2 in order, each a valid index
\* of every column, so row N-1 is never displayed; Curve.plot at frame f
\* draws the rows 0..f-1 only, so never the rows N-2 and N-1.
C11_FramesStopEarly == []FramesInRange /\ [][NextFrame]_vars

C11_Witness ==
    /\ Animating3d /\ samples = 1 /\ N3d = 3
    /\ frame_seq = <<0, 1>> /\ frame = 1
    /\ PosRow(0) = <<-1, -1, -1>> /\ PosRow(1) = <<0, 0, 0>> /\ PosRow(2) = <<1, 2, -1>>
    /\ ax.artists[4].points = << <<-1, -1, -1>> >>
    /\ ax.artists[1].points[1] = <<0, 0, 0>>

\* the limits are the largest get_max_value() + 2 and the smallest
\* get_min_value() - 2 of the objects, at least 4 apart, and each object's
\* extents are ordered; every frame drawn has them on its three axes
ViewBox ==
    Constructed =>
        /\ \A n \in 1..Len(object_list) :
              /\ get_max_value(object_list[n]) + 2 <= max
              /\ get_min_value(object_list[n]) - 2 >= min
              /\ get_min_value(object_list[n]) <= get_max_value(object_list[n])
        /\ \E n \in 1..Len(object_list) : max = get_max_value(object_list[n]) + 2
        /\ \E n \in 1..Len(object_list) : min = get_min_value(object_list[n]) - 2
        /\ max - min >= 4
        /\ frame_seq # << >> =>
              ax.xlim = <<min, max>> /\ ax.ylim = <<min, max>> /\ ax.zlim = <<min, max>>

\* a frame changes neither the limits nor the objects they were computed from
ViewBoxKept ==
    (Constructed /\ pc' = "animate") =>
        /\ max' = max /\ min' = min /\ object_list' = object_list
        /\ ax'.xlim = <<min, max>> /\ ax'.ylim = <<min, max>> /\ ax'.zlim = <<min, max>>

\* C12: the view box of animate_3d is computed once before the animation,
\* hi = max over the objects of get_max_value() + 2 and lo = min over the
\* objects of get_min_value() - 2; update sets the same (lo, hi) on the x, y
\* and z axis at every frame, and hi - lo >= 4 for every object list and
\* data set.
C12_ViewBoxFixed == []ViewBox /\ [][ViewBoxKept]_vars

C12_Witness ==
    /\ Animating3d /\ N3d = 3 /\ frame_seq = <<0>>
    /\ Len(object_list) = 2
    /\ get_max_value(object_list[1]) = 3 /\ get_max_value(object_list[2]) = 2
    /\ get_min_value(object_list[1]) = -3 /\ get_min_value(object_list[2]) = -1
    /\ max = 5 /\ min = -5
    /\ ax.xlim = <<-5, 5>> /\ ax.ylim = <<-5, 5>> /\ ax.zlim = <<-5, 5>>

====
